---- MODULE Spec2Model ----
(***************************************************************************)
(* A model of the schema-profiling pipeline of sqlserver_mapping.py:       *)
(* create_data_map walks databases -> tables -> columns of a SQL Server    *)
(* catalog, samples every column, formats its type and writes the report.  *)
(*                                                                         *)
(* Three specifications share the variables of the module:                 *)
(*   Spec        one run of main()/create_data_map over a catalog          *)
(*   SpecFormat  format_data_type applied to one column_info               *)
(*   SpecSample  get_sample_values applied to one column's content         *)
(***************************************************************************)
EXTENDS Integers, Sequences, FiniteSets, TLC

VARIABLES
    \* --- format_data_type (SpecFormat)
    column_info,        \* the argument of format_data_type
    formatted,          \* its return value
    fpc,                \* "input" before the call, "done" after it
    \* --- get_sample_values (SpecSample)
    column_data,        \* the rows of the column the query reads
    sample_size,        \* the sample_size argument
    sampled,            \* the list returned
    sample_failed,      \* TRUE when the query raised (the except branch ran)
    spc,                \* "input" before the call, "done" after it
    \* --- one run of main() / create_data_map (Spec)
    catalog,            \* the server's catalog: sys.databases and the tables of each database
    old_file,           \* the output path's state before the run
    file,               \* the output path's state now
    pc,                 \* the position of the run in main / create_data_map
    connected,          \* the pyodbc connection is open
    queries,            \* number of statements sent through the connection
    databases,          \* create_data_map's local `databases`
    dbi,                \* index of the current database in `databases`
    tables,             \* local `tables` of the current database
    tabi,               \* index of the current table in `tables`
    columns_info,       \* local `columns_info` of the current table
    coli,               \* index of the current column in `columns_info`
    sample_values,      \* local `sample_values` of the current column
    data_map_results,   \* the accumulated rows
    total_tables,
    total_columns,
    df,                 \* the DataFrame built from data_map_results
    result,             \* what create_data_map returned to main
    stdout,             \* everything printed so far
    faults,             \* number of failures the environment has raised so far
    \* --- salesforce_data.py (SpecPipeline, SpecExtract)
    org,                \* the Salesforce org: the records of each object
    export_format,      \* run_pipeline's export_format argument
    ppc,                \* the position of run_pipeline
    task_i,             \* number of EXTRACTION_PLAN entries the loop has taken
    logged,             \* the records written to the logger
    exports,            \* per object, the file save_dataframe left in OUTPUT_DIR
    ext_args,           \* the arguments of a call of extract_object
    soql,               \* the query that call built
    ext_rows,           \* the rows of the DataFrame that call returned
    epc                 \* "input" before the call, "done" / "raised" after it

fmtVars == <<column_info, formatted, fpc>>
smpVars == <<column_data, sample_size, sampled, sample_failed, spc>>
envVars == <<catalog, old_file>>
sfVars == <<org, export_format, ppc, task_i, logged, exports, ext_args, soql, ext_rows, epc>>
others == <<fmtVars, smpVars, envVars, sfVars>>
walkVars == <<file, pc, connected, queries, databases, dbi, tables, tabi, columns_info,
              coli, sample_values, data_map_results, total_tables, total_columns,
              df, result, stdout, faults>>

(***************************************************************************)
(* Bounds of the model.                                                    *)
(***************************************************************************)
MaxNum    == 2      \* lengths, precisions and scales range up to MaxNum
MaxRows   == 3      \* rows of a sampled column
MaxVal    == 2      \* column values are 0..MaxVal
MaxSample == 3      \* sample_size ranges over 0..MaxSample
MaxCols   == 2      \* columns per table of the catalog
MaxFaults == 2      \* failures the environment raises in one run
MaxRecords == 2     \* records of a Salesforce object
MaxLimit  == 2      \* extract_object's limit ranges over None and 0..MaxLimit

(***************************************************************************)
(* Python None / SQL NULL.  An optional integer is the empty set (None,    *)
(* NULL) or a singleton {v}.                                               *)
(***************************************************************************)
None == {}
Some(v) == {v}
The(x) == CHOOSE v \in x : TRUE
Opt(S) == {None} \cup {Some(v) : v \in S}

\* Python truthiness of an Optional[int]: None and 0 are falsy.
Truthy(x) == x # None /\ x # Some(0)

\* str(v) of an integer, as an f-string or str() renders it.
Str(x) == ToString(The(x))

(***************************************************************************)
(* format_data_type                                                        *)
(***************************************************************************)
DataTypes == {"varchar", "decimal"}

ColumnInfos ==
    [column_name : {"c"},
     data_type   : DataTypes,
     is_nullable : {"YES"},
     max_length  : Opt((-1) .. MaxNum),
     precision   : Opt(0 .. MaxNum),
     scale       : Opt(0 .. MaxNum)]

format_data_type(ci) ==
    LET data_type == ci.data_type IN
    IF Truthy(ci.max_length) /\ ci.max_length # Some(-1)
        THEN data_type \o "(" \o Str(ci.max_length) \o ")"
    ELSE IF Truthy(ci.precision) /\ Truthy(ci.scale)
        THEN data_type \o "(" \o Str(ci.precision) \o "," \o Str(ci.scale) \o ")"
    ELSE IF Truthy(ci.precision)
        THEN data_type \o "(" \o Str(ci.precision) \o ")"
    ELSE data_type

(***************************************************************************)
(* get_sample_values: SELECT DISTINCT TOP n [c] FROM t WHERE [c] IS NOT    *)
(* NULL ORDER BY [c], and the except branch that returns [].               *)
(***************************************************************************)
ColumnDatas == UNION {[1 .. n -> Opt(0 .. MaxVal)] : n \in 0 .. MaxRows}

\* WHERE [c] IS NOT NULL
WhereNotNull(data) == SelectSeq(data, LAMBDA v : v # None)

\* SELECT DISTINCT [c]
Distinct(data) == {The(data[i]) : i \in 1 .. Len(data)}

SetMin(S) == CHOOSE m \in S : \A v \in S : m <= v
SetMax(S) == CHOOSE m \in S : \A v \in S : m >= v

RECURSIVE OrderByDesc(_)
OrderByDesc(S) ==
    IF S = {} THEN <<>> ELSE <<SetMax(S)>> \o OrderByDesc(S \ {SetMax(S)})

\* ORDER BY [c]  (ascending)
RECURSIVE OrderBy(_)
OrderBy(S) ==
    IF S = {} THEN <<>> ELSE <<SetMin(S)>> \o OrderBy(S \ {SetMin(S)})

\* TOP n
Top(n, rows) == SubSeq(rows, 1, IF n < Len(rows) THEN n ELSE Len(rows))

SampleQuery(data, n) == Top(n, OrderBy(Distinct(WhereNotNull(data))))

\* failed: cursor.execute raised; the function prints the error and returns []
get_sample_values(data, n, failed) ==
    IF failed THEN <<>> ELSE SampleQuery(data, n)

(***************************************************************************)
(* The server's catalog.  A catalog is a part of a fixed universe: master  *)
(* is online, every user database is offline or online, and an online      *)
(* database holds any subset of the base tables the universe gives it.  A  *)
(* view exists beside every dbo.Orders table.                              *)
(***************************************************************************)
SystemDatabases == {"master", "tempdb", "model", "msdb"}
UserDatabases == {"Hr", "Sales"}
Schemas == {"dbo", "sales"}
DefaultSampleSize == 3

\* sys.databases.state: 0 is ONLINE, 6 is OFFLINE
DbStates == {0, 6}

\* Base tables the universe gives each database, as <<schema, table name>>.
UTables(db) ==
    IF db = "Sales"
        THEN {<<"dbo", "Orders">>, <<"dbo", "Staff">>, <<"sales", "Orders">>}
        ELSE {<<"dbo", "Staff">>}

\* The collation order of the names that get sorted.
NameOrder == <<"Hr", "master", "Orders", "OrderView", "Sales", "Staff">>

Col(name, type, nullable, len, prec, scale) ==
    [column_name |-> name, data_type |-> type, is_nullable |-> nullable,
     max_length |-> len, precision |-> prec, scale |-> scale]

\* INFORMATION_SCHEMA.COLUMNS of each object, in ordinal position.
UAllColumns(obj) ==
    CASE obj = <<"dbo", "Orders">> ->
            <<Col("OrderId", "int", "NO", None, Some(10), Some(0)),
              Col("Amount", "decimal", "YES", None, Some(10), Some(2)),
              Col("Note", "varchar", "YES", Some(-1), None, None)>>
      [] obj = <<"dbo", "Staff">> ->
            <<Col("Name", "varchar", "NO", Some(50), None, None),
              Col("Profile", "xml", "YES", None, None, None),
              Col("Hired", "date", "YES", None, None, Some(0))>>
      [] obj = <<"sales", "Orders">> ->
            <<Col("OrderId", "int", "NO", None, Some(10), Some(0)),
              Col("Region", "nchar", "YES", Some(2), None, None),
              Col("Amount", "float", "YES", None, Some(53), None)>>
      [] obj = <<"dbo", "OrderView">> ->
            <<Col("OrderId", "int", "NO", None, Some(10), Some(0))>>

UColumns(obj) ==
    LET all == UAllColumns(obj)
    IN  SubSeq(all, 1, IF MaxCols < Len(all) THEN MaxCols ELSE Len(all))

\* The rows of each column of the dbo tables (the only ones the sampler reads).
UData(table, column) ==
    CASE table = "Orders" /\ column = "OrderId" -> <<Some(2), Some(1), Some(2), Some(0)>>
      [] table = "Orders" /\ column = "Amount"  -> <<None, Some(1), None, Some(1)>>
      [] table = "Orders" /\ column = "Note"    -> <<None, None, None, None>>
      [] table = "Staff"  /\ column = "Name"    -> <<>>
      [] table = "Staff"  /\ column = "Profile" -> <<>>
      [] table = "Staff"  /\ column = "Hired"   -> <<>>
      [] OTHER -> <<>>

\* DISTINCT and ORDER BY are not defined for these types: the query raises.
Unorderable(type) == type \in {"xml"}

DbRow(name, state) == [name |-> name, state |-> state]

Catalogs ==
    {[databases |-> {DbRow("master", 0)} \cup
                    {DbRow(d, IF d \in online THEN 0 ELSE 6) : d \in UserDatabases},
      tables |-> [d \in {"master"} \cup UserDatabases |->
                    IF d \in online THEN held[d] ELSE UTables(d)]] :
        online \in SUBSET UserDatabases,
        held \in [UserDatabases -> SUBSET UTables("Sales")]}

\* The tables of a database that is not online are not part of the choice.
ValidCatalog(cat) ==
    \A r \in cat.databases :
        /\ cat.tables[r.name] \subseteq UTables(r.name)
        /\ r.state # 0 => cat.tables[r.name] = UTables(r.name)

\* Rows of [db].INFORMATION_SCHEMA.TABLES as <<schema, name, type>>.
InformationSchemaTables(cat, db) ==
    {<<t[1], t[2], "BASE TABLE">> : t \in cat.tables[db]} \cup
    {<<"dbo", "OrderView", "VIEW">> : t \in cat.tables[db] \cap {<<"dbo", "Orders">>}}

\* ORDER BY name over a bag of names: names[n] gives how often n occurs.
RECURSIVE SortedFrom(_, _)
SortedFrom(count, i) ==
    IF i > Len(NameOrder) THEN <<>>
    ELSE [k \in 1 .. count[NameOrder[i]] |-> NameOrder[i]] \o SortedFrom(count, i + 1)

\* The same bag of names from the last of the collation order to the first.
RECURSIVE SortedDownFrom(_, _)
SortedDownFrom(count, i) ==
    IF i < 1 THEN <<>>
    ELSE [k \in 1 .. count[NameOrder[i]] |-> NameOrder[i]] \o SortedDownFrom(count, i - 1)

OrderByNameDesc(rows) ==
    SortedDownFrom([n \in {NameOrder[i] : i \in 1 .. Len(NameOrder)} |->
                    Cardinality({r \in rows : r[2] = n})], Len(NameOrder))

OrderByName(rows) ==
    SortedFrom([n \in {NameOrder[i] : i \in 1 .. Len(NameOrder)} |->
                    Cardinality({r \in rows : r[2] = n})], 1)

\* SELECT name FROM sys.databases WHERE state = 0 AND name NOT IN (...) ORDER BY name
DatabasesQuery(cat) ==
    OrderByName({<<"sys", r.name>> : r \in
        {r \in cat.databases : r.state = 0 /\ r.name \notin SystemDatabases}})

\* SELECT TABLE_NAME FROM [db].INFORMATION_SCHEMA.TABLES
\* WHERE TABLE_TYPE = 'BASE TABLE' ORDER BY TABLE_NAME
TablesQuery(cat, db) ==
    OrderByName({t \in InformationSchemaTables(cat, db) : t[3] = "BASE TABLE"})

\* SELECT ... FROM [db].INFORMATION_SCHEMA.COLUMNS WHERE TABLE_NAME = table
\* ORDER BY ORDINAL_POSITION.  The rows of every schema's table of that name
\* match; tie is the order in which the server returns rows of equal
\* ordinal position.
RECURSIVE ColumnsFrom(_, _, _, _)
ColumnsFrom(objs, tie, pos, k) ==
    IF pos > MaxCols THEN <<>>
    ELSE IF k > Len(tie) THEN ColumnsFrom(objs, tie, pos + 1, 1)
    ELSE LET hit == {o \in objs : o[1] = tie[k] /\ Len(UColumns(<<o[1], o[2]>>)) >= pos}
         IN  (IF hit = {} THEN <<>>
              ELSE <<UColumns(<<(CHOOSE o \in hit : TRUE)[1],
                                (CHOOSE o \in hit : TRUE)[2]>>)[pos]>>)
             \o ColumnsFrom(objs, tie, pos, k + 1)

ColumnsQuery(cat, db, table, tie) ==
    ColumnsFrom({t \in InformationSchemaTables(cat, db) : t[2] = table}, tie, 1, 1)

TieOrders == {<<"dbo", "sales">>, <<"sales", "dbo">>}

\* SELECT DISTINCT TOP n [column] FROM [db].[dbo].[table] ... raises when
\* dbo.table does not exist, has no such column, or the type is not orderable.
SampleRaises(cat, db, table, column) ==
    \/ <<"dbo", table>> \notin cat.tables[db]
    \/ \A i \in 1 .. Len(UColumns(<<"dbo", table>>)) :
          UColumns(<<"dbo", table>>)[i].column_name # column
    \/ \E i \in 1 .. Len(UColumns(<<"dbo", table>>)) :
          /\ UColumns(<<"dbo", table>>)[i].column_name = column
          /\ Unorderable(UColumns(<<"dbo", table>>)[i].data_type)

(***************************************************************************)
(* What the run prints, the report rows, the DataFrame and the CSV file.   *)
(***************************************************************************)
Msg(kind, a, b, c, n) == [kind |-> kind, a |-> a, b |-> b, c |-> c, n |-> n]
Say(kind) == Msg(kind, "", "", "", 0)
SayN(kind, n) == Msg(kind, "", "", "", n)

\* ', '.join(parts)
RECURSIVE Join(_, _)
Join(sep, parts) ==
    IF parts = <<>> THEN ""
    ELSE IF Len(parts) = 1 THEN parts[1]
    ELSE parts[1] \o sep \o Join(sep, Tail(parts))

SampleValuesStrNoMarker(values) ==
    Join(", ", [i \in 1 .. Len(values) |-> ToString(values[i])])

\* ', '.join([str(v) for v in sample_values]) if sample_values else 'No data'
SampleValuesStr(values) ==
    IF values # <<>>
        THEN Join(", ", [i \in 1 .. Len(values) |-> ToString(values[i])])
        ELSE "No data"

\* The dictionary appended to data_map_results.
ReportRow(database, table, col_info, values) ==
    [database      |-> database,
     table         |-> table,
     column        |-> col_info.column_name,
     data_type     |-> format_data_type(col_info),
     sample_values |-> SampleValuesStr(values),
     is_nullable   |-> col_info.is_nullable]

\* The keys of that dictionary, in insertion order.
RowKeys == <<"database", "table", "column", "data_type", "sample_values", "is_nullable">>

\* pd.DataFrame(list of dicts): the columns are the keys of the dicts, so a
\* frame built from an empty list has no columns.
DataFrame(rows) ==
    [columns |-> IF rows = <<>> THEN <<>> ELSE RowKeys, rows |-> rows]

\* df.empty
Empty(frame) == Len(frame.rows) = 0 \/ Len(frame.columns) = 0

Field(row, key) ==
    CASE key = "database" -> row.database
      [] key = "table" -> row.table
      [] key = "column" -> row.column
      [] key = "data_type" -> row.data_type
      [] key = "sample_values" -> row.sample_values
      [] key = "is_nullable" -> row.is_nullable

\* df.to_csv(path, index=False): the header line, then one line per row.
CsvLines(frame) ==
    <<frame.columns>> \o
    [i \in 1 .. Len(frame.rows) |->
        [k \in 1 .. Len(frame.columns) |-> Field(frame.rows[i], frame.columns[k])]]

NoFile == [exists |-> FALSE, lines |-> <<>>]
PreviousFile == [exists |-> TRUE, lines |-> <<<<"previous report">>>>]

NUnique(frame, key) == Cardinality({Field(frame.rows[i], key) : i \in 1 .. Len(frame.rows)})

(***************************************************************************)
(* Spec: one run of main().                                                *)
(***************************************************************************)
InitRun ==
    /\ catalog \in {c \in Catalogs : ValidCatalog(c)}
    /\ old_file \in {NoFile, PreviousFile}
    /\ file = old_file
    /\ pc = "main"
    /\ connected = FALSE
    /\ queries = 0
    /\ databases = <<>>
    /\ dbi = 0
    /\ tables = <<>>
    /\ tabi = 0
    /\ columns_info = <<>>
    /\ coli = 0
    /\ sample_values = <<>>
    /\ data_map_results = <<>>
    /\ total_tables = 0
    /\ total_columns = 0
    /\ df = DataFrame(<<>>)
    /\ result = DataFrame(<<>>)
    /\ stdout = <<>>
    /\ faults = 0

IdleRun ==
    /\ catalog = CHOOSE c \in Catalogs : TRUE
    /\ old_file = NoFile
    /\ file = NoFile
    /\ pc = "idle"
    /\ connected = FALSE
    /\ queries = 0
    /\ databases = <<>>
    /\ dbi = 0
    /\ tables = <<>>
    /\ tabi = 0
    /\ columns_info = <<>>
    /\ coli = 0
    /\ sample_values = <<>>
    /\ data_map_results = <<>>
    /\ total_tables = 0
    /\ total_columns = 0
    /\ df = DataFrame(<<>>)
    /\ result = DataFrame(<<>>)
    /\ stdout = <<>>
    /\ faults = 0

\* The environment may raise one more failure.
MayFail == faults < MaxFaults

\* main, lines 306-310: the banner, then the call of create_data_map.
MainStart ==
    /\ pc = "main"
    /\ stdout' = stdout \o <<Say("starting"), Say("target")>>
    /\ pc' = "connect"
    /\ UNCHANGED <<others, file, connected, queries, databases, dbi, tables, tabi,
                   columns_info, coli, sample_values, data_map_results,
                   total_tables, total_columns, df, result, faults>>

\* create_connection with a failure that is printed and swallowed.
ConnectSwallows ==
    /\ pc = "connect"
    /\ \/ /\ MayFail
          /\ faults' = faults + 1
          /\ stdout' = Append(stdout, Say("connect_error"))
          /\ pc' = "get_databases"
          /\ UNCHANGED connected
       \/ /\ connected' = TRUE
          /\ stdout' = Append(stdout, Say("connected"))
          /\ pc' = "get_databases"
          /\ UNCHANGED faults
    /\ UNCHANGED <<others, file, queries, databases, dbi, tables, tabi, columns_info,
                   coli, sample_values, data_map_results, total_tables,
                   total_columns, df, result>>

\* create_connection: pyodbc.connect raises (printed, re-raised into
\* create_data_map's except) or returns the connection.
Connect ==
    /\ pc = "connect"
    /\ \/ /\ MayFail
          /\ faults' = faults + 1
          /\ stdout' = Append(stdout, Say("connect_error"))
          /\ pc' = "except"
          /\ UNCHANGED connected
       \/ /\ connected' = TRUE
          /\ stdout' = Append(stdout, Say("connected"))
          /\ pc' = "get_databases"
          /\ UNCHANGED faults
    /\ UNCHANGED <<others, file, queries, databases, dbi, tables, tabi, columns_info,
                   coli, sample_values, data_map_results, total_tables,
                   total_columns, df, result>>

\* get_databases, then total_tables = 0 and total_columns = 0.
GetDatabases ==
    /\ pc = "get_databases"
    /\ queries' = queries + 1
    /\ \/ /\ MayFail
          /\ faults' = faults + 1
          /\ databases' = <<>>
          /\ stdout' = Append(stdout, Say("databases_error"))
       \/ /\ databases' = DatabasesQuery(catalog)
          /\ stdout' = Append(stdout, SayN("found_databases", Len(DatabasesQuery(catalog))))
          /\ UNCHANGED faults
    /\ total_tables' = 0
    /\ total_columns' = 0
    /\ dbi' = 0
    /\ pc' = "database_loop"
    /\ UNCHANGED <<others, file, connected, tables, tabi, columns_info, coli,
                   sample_values, data_map_results, df, result>>

\* for database in databases: get_tables, total_tables += len(tables).
DatabaseLoop ==
    /\ pc = "database_loop"
    /\ dbi < Len(databases)
    /\ LET database == databases[dbi + 1] IN
        /\ dbi' = dbi + 1
        /\ queries' = queries + 1
        /\ \/ /\ MayFail
              /\ faults' = faults + 1
              /\ tables' = <<>>
              /\ stdout' = stdout \o <<Msg("processing_database", database, "", "", 0),
                                       Msg("tables_error", database, "", "", 0)>>
           \/ /\ tables' = TablesQuery(catalog, database)
              /\ stdout' = Append(stdout, Msg("processing_database", database, "", "", 0))
              /\ UNCHANGED faults
        /\ total_tables' = total_tables + Len(tables')
        /\ tabi' = 0
        /\ pc' = "table_loop"
    /\ UNCHANGED <<others, file, connected, databases, columns_info, coli, sample_values,
                   data_map_results, total_columns, df, result>>

\* The database loop is exhausted: connection.close() and pd.DataFrame(...).
CloseAndFrame ==
    /\ pc = "database_loop"
    /\ dbi = Len(databases)
    /\ connected' = FALSE
    /\ df' = DataFrame(data_map_results)
    /\ pc' = "to_csv_open"
    /\ UNCHANGED <<others, file, queries, databases, dbi, tables, tabi, columns_info, coli,
                   sample_values, data_map_results, total_tables, total_columns,
                   result, stdout, faults>>

\* for table in tables, with a get_column_info whose failure is not caught:
\* it unwinds to create_data_map's except.
TableLoopRaises ==
    /\ pc = "table_loop"
    /\ tabi < Len(tables)
    /\ LET database == databases[dbi]
           table == tables[tabi + 1] IN
        /\ tabi' = tabi + 1
        /\ queries' = queries + 1
        /\ \/ /\ MayFail
              /\ faults' = faults + 1
              /\ stdout' = stdout \o <<Msg("processing_table", database, table, "", 0),
                                       Msg("columns_error", database, table, "", 0)>>
              /\ pc' = "except"
              /\ UNCHANGED <<columns_info, total_columns, coli>>
           \/ /\ \E tie \in TieOrders :
                    columns_info' = ColumnsQuery(catalog, database, table, tie)
              /\ stdout' = Append(stdout, Msg("processing_table", database, table, "", 0))
              /\ total_columns' = total_columns + Len(columns_info')
              /\ coli' = 0
              /\ pc' = "column_loop"
              /\ UNCHANGED faults
    /\ UNCHANGED <<others, file, connected, databases, dbi, tables, sample_values,
                   data_map_results, total_tables, df, result>>

\* for table in tables: get_column_info, total_columns += len(columns_info).
\* A failure of the listing is printed and gives columns_info = [].
TableLoop ==
    /\ pc = "table_loop"
    /\ tabi < Len(tables)
    /\ LET database == databases[dbi]
           table == tables[tabi + 1] IN
        /\ tabi' = tabi + 1
        /\ queries' = queries + 1
        /\ \/ /\ MayFail
              /\ faults' = faults + 1
              /\ columns_info' = <<>>
              /\ stdout' = stdout \o <<Msg("processing_table", database, table, "", 0),
                                       Msg("columns_error", database, table, "", 0)>>
           \/ /\ \E tie \in TieOrders :
                    columns_info' = ColumnsQuery(catalog, database, table, tie)
              /\ stdout' = Append(stdout, Msg("processing_table", database, table, "", 0))
              /\ UNCHANGED faults
        /\ total_columns' = total_columns + Len(columns_info')
        /\ coli' = 0
        /\ pc' = "column_loop"
    /\ UNCHANGED <<others, file, connected, databases, dbi, tables, sample_values,
                   data_map_results, total_tables, df, result>>

\* The table loop is exhausted: back to the database loop.
TablesDone ==
    /\ pc = "table_loop"
    /\ tabi = Len(tables)
    /\ pc' = "database_loop"
    /\ UNCHANGED <<others, file, connected, queries, databases, dbi, tables, tabi,
                   columns_info, coli, sample_values, data_map_results,
                   total_tables, total_columns, df, result, stdout, faults>>

\* for col_info in columns_info: get_sample_values, format_data_type, append.
ColumnLoop ==
    /\ pc = "column_loop"
    /\ coli < Len(columns_info)
    /\ LET database == databases[dbi]
           table == tables[tabi]
           col_info == columns_info[coli + 1]
           column_name == col_info.column_name IN
        /\ coli' = coli + 1
        /\ queries' = queries + 1
        /\ \/ /\ SampleRaises(catalog, database, table, column_name)
              /\ sample_values' = get_sample_values(<<>>, DefaultSampleSize, TRUE)
              /\ stdout' = Append(stdout, Msg("sample_error", database, table, column_name, 0))
              /\ UNCHANGED faults
           \/ /\ ~SampleRaises(catalog, database, table, column_name)
              /\ MayFail
              /\ faults' = faults + 1
              /\ sample_values' = get_sample_values(UData(table, column_name),
                                                    DefaultSampleSize, TRUE)
              /\ stdout' = Append(stdout, Msg("sample_error", database, table, column_name, 0))
           \/ /\ ~SampleRaises(catalog, database, table, column_name)
              /\ sample_values' = get_sample_values(UData(table, column_name),
                                                    DefaultSampleSize, FALSE)
              /\ UNCHANGED <<stdout, faults>>
        /\ data_map_results' =
              Append(data_map_results, ReportRow(database, table, col_info, sample_values'))
    /\ pc' = "column_loop"
    /\ UNCHANGED <<others, file, connected, databases, dbi, tables, tabi, columns_info,
                   total_tables, total_columns, df, result>>

\* The column loop is exhausted: back to the table loop.
ColumnsDone ==
    /\ pc = "column_loop"
    /\ coli = Len(columns_info)
    /\ pc' = "table_loop"
    /\ UNCHANGED <<others, file, connected, queries, databases, dbi, tables, tabi,
                   columns_info, coli, sample_values, data_map_results,
                   total_tables, total_columns, df, result, stdout, faults>>

\* df.to_csv(output_file, index=False), first half: the path is opened for
\* writing, which truncates it; the open itself may raise and leave it alone.
ToCsvOpen ==
    /\ pc = "to_csv_open"
    /\ \/ /\ MayFail
          /\ faults' = faults + 1
          /\ pc' = "except"
          /\ UNCHANGED file
       \/ /\ file' = [exists |-> TRUE, lines |-> <<>>]
          /\ pc' = "to_csv_write"
          /\ UNCHANGED faults
    /\ UNCHANGED <<others, connected, queries, databases, dbi, tables, tabi, columns_info,
                   coli, sample_values, data_map_results, total_tables,
                   total_columns, df, result, stdout>>

\* df.to_csv, second half: the lines are written and the file closed; a
\* failure on the way (disk full, device error) leaves the lines written so far.
ToCsvWrite ==
    /\ pc = "to_csv_write"
    /\ \/ /\ MayFail
          /\ faults' = faults + 1
          /\ \E k \in 0 .. (Len(CsvLines(df)) - 1) :
                file' = [exists |-> TRUE, lines |-> SubSeq(CsvLines(df), 1, k)]
          /\ pc' = "except"
       \/ /\ file' = [exists |-> TRUE, lines |-> CsvLines(df)]
          /\ pc' = "summary"
          /\ UNCHANGED faults
    /\ UNCHANGED <<others, connected, queries, databases, dbi, tables, tabi, columns_info,
                   coli, sample_values, data_map_results, total_tables,
                   total_columns, df, result, stdout>>

\* Lines 260-267: the summary is printed and df returned.
PrintSummary ==
    /\ pc = "summary"
    /\ stdout' = stdout \o
          <<Say("complete"),
            SayN("total_databases_processed", Len(databases)),
            SayN("total_tables_processed", total_tables),
            SayN("total_columns_processed", total_columns),
            Say("saved_to"),
            Msg("shape", ToString(Len(df.rows)), ToString(Len(df.columns)), "", 0)>>
    /\ result' = df
    /\ pc' = "main_check"
    /\ UNCHANGED <<others, file, connected, queries, databases, dbi, tables, tabi,
                   columns_info, coli, sample_values, data_map_results,
                   total_tables, total_columns, df, faults>>

\* Lines 269-271: any exception that reached create_data_map is printed and
\* an empty DataFrame returned.
Except ==
    /\ pc = "except"
    /\ stdout' = Append(stdout, Say("create_data_map_error"))
    /\ result' = DataFrame(<<>>)
    /\ pc' = "main_check"
    /\ UNCHANGED <<others, file, connected, queries, databases, dbi, tables, tabi,
                   columns_info, coli, sample_values, data_map_results,
                   total_tables, total_columns, df, faults>>

\* display_summary(df) for a non-empty df, and main's "FIRST 10 ROWS".
display_summary(frame) ==
    <<Say("data_map_summary"),
      SayN("total_records", Len(frame.rows)),
      SayN("databases", NUnique(frame, "database")),
      SayN("tables", NUnique(frame, "table")),
      SayN("unique_columns", NUnique(frame, "column")),
      Say("top_data_types"),
      Say("tables_per_database")>>

\* main, lines 312-320.
MainCheck ==
    /\ pc = "main_check"
    /\ stdout' = IF ~Empty(result)
                    THEN stdout \o display_summary(result) \o <<Say("first_10_rows")>>
                    ELSE Append(stdout, Say("mapping_failed"))
    /\ pc' = "done"
    /\ UNCHANGED <<others, file, connected, queries, databases, dbi, tables, tabi,
                   columns_info, coli, sample_values, data_map_results,
                   total_tables, total_columns, df, result, faults>>

Next ==
    \/ MainStart
    \/ Connect
    \/ GetDatabases
    \/ DatabaseLoop
    \/ TableLoop
    \/ TablesDone
    \/ ColumnLoop
    \/ ColumnsDone
    \/ CloseAndFrame
    \/ ToCsvOpen
    \/ ToCsvWrite
    \/ PrintSummary
    \/ Except
    \/ MainCheck

(***************************************************************************)
(* salesforce_data.py: extract_object, run_soql_query, save_dataframe and  *)
(* run_pipeline.  A query is kept as its words; the code's string is the   *)
(* words joined by one space.  A DataFrame is kept as its number of rows.  *)
(***************************************************************************)
Objects == {"Account", "Contact", "Opportunity"}

\* EXTRACTION_PLAN
EXTRACTION_PLAN ==
    <<[object |-> "Account", fields |-> "Id, Name, Industry, BillingCity, BillingCountry, CreatedDate",
       where |-> ""],
      [object |-> "Contact", fields |-> "Id, FirstName, LastName, Email, AccountId, CreatedDate",
       where |-> ""],
      [object |-> "Opportunity", fields |-> "Id, Name, StageName, Amount, CloseDate, AccountId",
       where |-> "WHERE StageName != 'Closed Lost'"]>>

WhereClauses == {"WHERE StageName != 'Closed Lost'"}

\* ", ".join(fields) of an explicit field list; "" stands for fields=None.
FieldLists == {"", "Id, Name"}

\* describe_object: the field names of the object's metadata, joined.
DescribedFields(object_name) == "Id, Name, CreatedDate"

\* An org holds, per object, `all` records of which `kept` pass the WHERE clause.
Orgs == [Objects -> {s \in [all : 0 .. MaxRecords, kept : 0 .. MaxRecords] : s.kept <= s.all}]

\* extract_object, lines 194-204: the SOQL text that is handed to run_soql_query.
extract_object(object_name, fields, where_clause, limit) ==
    <<"SELECT", IF fields = "" THEN DescribedFields(object_name) ELSE fields,
      "FROM", object_name>>
    \o (IF where_clause # "" THEN <<where_clause>> ELSE <<>>)
    \o (IF Truthy(limit) THEN <<"LIMIT", Str(limit)>> ELSE <<>>)

\* sf.query_all(soql): the number of records the org returns for the query.
QueryAll(query, o) ==
    LET size == o[query[4]]
        matching == IF \E i \in 5 .. Len(query) : query[i] \in WhereClauses
                        THEN size.kept ELSE size.all
        limits == {n \in 0 .. MaxLimit :
                      \E i \in 5 .. (Len(query) - 1) :
                          query[i] = "LIMIT" /\ query[i + 1] = ToString(n)}
    IN  IF limits = {} THEN matching
        ELSE IF SetMin(limits) < matching THEN SetMin(limits) ELSE matching

\* run_soql_query: the rows of the DataFrame returned (0 for pd.DataFrame()).
run_soql_query(query, o) == QueryAll(query, o)

ExportFormats == {"csv", "json", "xml"}
SupportedFormats == {"csv", "json"}

NoExport == [exists |-> FALSE, complete |-> FALSE, rows |-> 0]

Log(kind, obj, n) == [kind |-> kind, obj |-> obj, n |-> n]

\* save_dataframe: the file left at filepath.  The name carries the object
\* and a timestamp, so no earlier file is in the way.  how is "ok", or the
\* point at which to_csv / to_json raised: "open" or "write".
save_dataframe(rows, fmt, how, written) ==
    IF fmt \notin SupportedFormats THEN NoExport
    ELSE IF how = "ok" THEN [exists |-> TRUE, complete |-> TRUE, rows |-> rows]
    ELSE IF how = "open" THEN NoExport
    ELSE [exists |-> TRUE, complete |-> FALSE, rows |-> written]

\* save_dataframe raises: ValueError for an unsupported format, or the write fails.
SaveRaises(fmt, how) == fmt \notin SupportedFormats \/ how # "ok"

IdleSample ==
    /\ column_data = <<>>
    /\ sample_size = 0
    /\ sampled = <<>>
    /\ sample_failed = FALSE
    /\ spc = "idle"

IdleFormat ==
    /\ column_info = CHOOSE ci \in ColumnInfos : TRUE
    /\ formatted = ""
    /\ fpc = "idle"

IdleSalesforce ==
    /\ org = CHOOSE o \in Orgs : TRUE
    /\ export_format = "csv"
    /\ ppc = "idle"
    /\ task_i = 0
    /\ logged = <<>>
    /\ exports = [o \in Objects |-> NoExport]
    /\ ext_args = [object_name |-> "Account", fields |-> "", where_clause |-> "", limit |-> None]
    /\ soql = <<>>
    /\ ext_rows = 0
    /\ epc = "idle"

InitPipeline ==
    /\ IdleFormat
    /\ IdleSample
    /\ IdleRun
    /\ org \in Orgs
    /\ export_format \in ExportFormats
    /\ ppc = "start"
    /\ task_i = 0
    /\ logged = <<>>
    /\ exports = [o \in Objects |-> NoExport]
    /\ ext_args = [object_name |-> "Account", fields |-> "", where_clause |-> "", limit |-> None]
    /\ soql = <<>>
    /\ ext_rows = 0
    /\ epc = "idle"

\* run_pipeline, lines 260-264: the banner and connect_to_salesforce, which
\* returns the session or logs and re-raises SalesforceAuthenticationFailed.
PipelineStart ==
    /\ ppc = "start"
    /\ \/ /\ logged' = logged \o <<Log("started", "", 0), Log("connected", "", 0)>>
          /\ ppc' = "loop"
       \/ /\ logged' = logged \o <<Log("started", "", 0), Log("authentication_failed", "", 0)>>
          /\ ppc' = "raised"
    /\ UNCHANGED <<org, export_format, task_i, exports, ext_args, soql, ext_rows, epc,
                   fmtVars, smpVars, envVars, walkVars>>

\* One turn of the loop over EXTRACTION_PLAN without the try / except: an
\* exception leaves run_pipeline.
PipelineTaskRaises ==
    /\ ppc = "loop"
    /\ task_i < Len(EXTRACTION_PLAN)
    /\ LET task == EXTRACTION_PLAN[task_i + 1]
           obj_name == task.object
           query == extract_object(obj_name, task.fields, task.where, None)
           rows == run_soql_query(query, org)
       IN  \/ /\ logged' = logged \o <<Log("extracting", obj_name, 0)>>
              /\ ppc' = "raised"
              /\ UNCHANGED <<exports, task_i>>
           \/ /\ rows = 0
              /\ logged' = logged \o <<Log("extracting", obj_name, 0),
                                       Log("no_records", obj_name, 0)>>
              /\ task_i' = task_i + 1
              /\ UNCHANGED <<exports, ppc>>
           \/ /\ rows > 0
              /\ \E how \in {"ok", "open", "write"}, written \in 0 .. (rows - 1) :
                    /\ exports' = [exports EXCEPT ![obj_name] =
                                      save_dataframe(rows, export_format, how, written)]
                    /\ IF SaveRaises(export_format, how)
                          THEN /\ logged' = logged \o <<Log("extracting", obj_name, 0),
                                                        Log("fetched", obj_name, rows)>>
                               /\ ppc' = "raised"
                               /\ UNCHANGED task_i
                          ELSE /\ logged' = logged \o <<Log("extracting", obj_name, 0),
                                                        Log("fetched", obj_name, rows),
                                                        Log("saved", obj_name, rows)>>
                               /\ task_i' = task_i + 1
                               /\ UNCHANGED ppc
    /\ UNCHANGED <<org, export_format, ext_args, soql, ext_rows, epc,
                   fmtVars, smpVars, envVars, walkVars>>

\* One turn of the loop over EXTRACTION_PLAN, lines 266-281: extract_object
\* (the fields are given, the limit is task.get("limit") = None), then
\* save_dataframe when the frame is not empty; any exception of the two is
\* logged and the loop goes on.  The log records of a turn carry its object.
PipelineTask ==
    /\ ppc = "loop"
    /\ task_i < Len(EXTRACTION_PLAN)
    /\ LET task == EXTRACTION_PLAN[task_i + 1]
           obj_name == task.object
           query == extract_object(obj_name, task.fields, task.where, None)
           rows == run_soql_query(query, org)
       IN  \/ /\ logged' = logged \o <<Log("extracting", obj_name, 0),
                                       Log("failed", obj_name, 0)>>
              /\ UNCHANGED exports
           \/ /\ rows = 0
              /\ logged' = logged \o <<Log("extracting", obj_name, 0),
                                       Log("no_records", obj_name, 0)>>
              /\ UNCHANGED exports
           \/ /\ rows > 0
              /\ \E how \in {"ok", "open", "write"}, written \in 0 .. (rows - 1) :
                    /\ exports' = [exports EXCEPT ![obj_name] =
                                      save_dataframe(rows, export_format, how, written)]
                    /\ logged' = logged \o
                          <<Log("extracting", obj_name, 0), Log("fetched", obj_name, rows),
                            IF SaveRaises(export_format, how)
                                THEN Log("failed", obj_name, 0)
                                ELSE Log("saved", obj_name, rows)>>
    /\ task_i' = task_i + 1
    /\ UNCHANGED <<org, export_format, ppc, ext_args, soql, ext_rows, epc,
                   fmtVars, smpVars, envVars, walkVars>>

\* Line 283: the loop is exhausted.
PipelineComplete ==
    /\ ppc = "loop"
    /\ task_i = Len(EXTRACTION_PLAN)
    /\ logged' = Append(logged, Log("pipeline_complete", "", 0))
    /\ ppc' = "complete"
    /\ UNCHANGED <<org, export_format, task_i, exports, ext_args, soql, ext_rows, epc,
                   fmtVars, smpVars, envVars, walkVars>>

NextPipeline ==
    \/ PipelineStart
    \/ PipelineTask
    \/ PipelineComplete

\* A call of extract_object on its own.
InitExtract ==
    /\ IdleFormat
    /\ IdleSample
    /\ IdleRun
    /\ org \in Orgs
    /\ ext_args \in [object_name : Objects, fields : FieldLists,
                     where_clause : {""} \cup WhereClauses, limit : Opt(0 .. MaxLimit)]
    /\ soql = <<>>
    /\ ext_rows = 0
    /\ epc = "input"
    /\ export_format = "csv"
    /\ ppc = "idle"
    /\ task_i = 0
    /\ logged = <<>>
    /\ exports = [o \in Objects |-> NoExport]

\* extract_object, lines 178-206: the query is built and run; query_all (or
\* describe_object) may raise.
ExtractObject ==
    /\ epc = "input"
    /\ soql' = extract_object(ext_args.object_name, ext_args.fields,
                              ext_args.where_clause, ext_args.limit)
    /\ \/ /\ ext_rows' = run_soql_query(soql', org)
          /\ epc' = "done"
       \/ /\ ext_rows' = 0
          /\ epc' = "raised"
    /\ UNCHANGED <<org, export_format, ppc, task_i, logged, exports, ext_args,
                   fmtVars, smpVars, envVars, walkVars>>

NextExtract == ExtractObject

(***************************************************************************)
(* SpecFormat                                                              *)
(***************************************************************************)
InitFormat ==
    /\ column_info \in ColumnInfos
    /\ formatted = ""
    /\ fpc = "input"
    /\ IdleSample
    /\ IdleRun
    /\ IdleSalesforce

FormatType ==
    /\ fpc = "input"
    /\ formatted' = format_data_type(column_info)
    /\ fpc' = "done"
    /\ UNCHANGED <<column_info, smpVars, envVars, walkVars, sfVars>>

NextFormat == FormatType

(***************************************************************************)
(* SpecSample                                                              *)
(***************************************************************************)
InitSample ==
    /\ column_data \in ColumnDatas
    /\ sample_size \in 0 .. MaxSample
    /\ sampled = <<>>
    /\ sample_failed = FALSE
    /\ spc = "input"
    /\ IdleFormat
    /\ IdleRun
    /\ IdleSalesforce

GetSample ==
    /\ spc = "input"
    /\ \E failed \in BOOLEAN :
        /\ sampled' = get_sample_values(column_data, sample_size, failed)
        /\ sample_failed' = failed
    /\ spc' = "done"
    /\ UNCHANGED <<column_data, sample_size, fmtVars, envVars, walkVars, sfVars>>

NextSample == GetSample

vars == <<fmtVars, smpVars, envVars, walkVars, sfVars>>

Init == InitRun /\ IdleFormat /\ IdleSample /\ IdleSalesforce
Spec == Init /\ [][Next]_vars

SpecFormat == InitFormat /\ [][NextFormat]_vars
SpecSample == InitSample /\ [][NextSample]_vars
SpecPipeline == InitPipeline /\ [][NextPipeline]_vars
SpecExtract == InitExtract /\ [][NextExtract]_vars

(***************************************************************************)
(* Claims about format_data_type (checked under SpecFormat).               *)
(***************************************************************************)
LengthForm(ci) == ci.data_type \o "(" \o Str(ci.max_length) \o ")"
PrecScaleForm(ci) ==
    ci.data_type \o "(" \o Str(ci.precision) \o "," \o Str(ci.scale) \o ")"
PrecForm(ci) == ci.data_type \o "(" \o Str(ci.precision) \o ")"

LengthApplies(ci) == ci.max_length # None /\ ci.max_length # Some(-1)
PrecScaleApplies(ci) == ci.precision # None /\ ci.scale # None
PrecApplies(ci) == ci.precision # None

\* C6: whenever max_length is present (not None) and not the sentinel -1,
\* format_data_type returns data_type "(" max_length ")", whatever precision
\* and scale are.
C6_LengthForm ==
    (fpc = "done" /\ LengthApplies(column_info))
        => formatted = LengthForm(column_info)

\* C7: whenever max_length is None or -1 and precision and scale are both
\* present (any integers, 0 included), format_data_type returns
\* data_type "(" precision "," scale ")".
C7_PrecScaleForm ==
    (fpc = "done" /\ ~LengthApplies(column_info) /\ PrecScaleApplies(column_info))
        => formatted = PrecScaleForm(column_info)

\* C8: precedence length > (precision,scale) > precision-only > bare type:
\* with max_length None or -1 and scale None the result is
\* data_type(precision) when precision is present and the bare data_type when
\* it is None; the bare type is returned only when none of the three earlier
\* forms applies.
C8_Precedence ==
    fpc = "done" =>
        /\ (~LengthApplies(column_info) /\ column_info.scale = None) =>
              formatted = IF PrecApplies(column_info)
                              THEN PrecForm(column_info)
                              ELSE column_info.data_type
        /\ formatted = column_info.data_type =>
              /\ ~LengthApplies(column_info)
              /\ ~PrecScaleApplies(column_info)
              /\ ~PrecApplies(column_info)

(***************************************************************************)
(* Claims about get_sample_values (checked under SpecSample).              *)
(***************************************************************************)
NonNullValues == {v \in 0 .. MaxVal : \E i \in 1 .. Len(column_data) : column_data[i] = Some(v)}

\* C9: get_sample_values returns at most sample_size values, none of them
\* null, none twice, in ascending order; when the query succeeds they are the
\* smallest distinct non-null values of the column (as many as sample_size
\* allows), and the result is empty when the column has no non-null value.
C9_SampleSet ==
    spc = "done" =>
        /\ Len(sampled) <= sample_size
        /\ \A i \in 1 .. Len(sampled) : sampled[i] \in NonNullValues
        /\ \A i, j \in 1 .. Len(sampled) : i < j => sampled[i] < sampled[j]
        /\ NonNullValues = {} => sampled = <<>>
        /\ ~sample_failed =>
              /\ Len(sampled) = IF sample_size < Cardinality(NonNullValues)
                                    THEN sample_size
                                    ELSE Cardinality(NonNullValues)
              /\ \A v \in NonNullValues :
                    (\A i \in 1 .. Len(sampled) : sampled[i] # v) =>
                        \A i \in 1 .. Len(sampled) : sampled[i] < v

\* C9 witness: a column with a null and more distinct values than
\* sample_size, sampled successfully: only the smallest value is returned.
C9_Witness ==
    /\ spc = "done"
    /\ ~sample_failed
    /\ sample_size = 1
    /\ column_data = <<Some(2), None, Some(0)>>
    /\ sampled = <<0>>

(***************************************************************************)
(* Claims about one run of create_data_map (checked under Spec).           *)
(***************************************************************************)
Printed(kind) == \E i \in 1 .. Len(stdout) : stdout[i].kind = kind
PrintedFor(kind, a, b, c) ==
    \E i \in 1 .. Len(stdout) :
        stdout[i].kind = kind /\ stdout[i].a = a /\ stdout[i].b = b /\ stdout[i].c = c

\* The databases that pass the online / non-system filter.
OnlineUserDatabases ==
    {r.name : r \in {r \in catalog.databases : r.state = 0 /\ r.name \notin SystemDatabases}}

HasRow(db, table, column) ==
    \E i \in 1 .. Len(data_map_results) :
        /\ data_map_results[i].database = db
        /\ data_map_results[i].table = table
        /\ data_map_results[i].column = column

HasLine(db, table, column) ==
    \E k \in 2 .. Len(file.lines) :
        /\ file.lines[k][1] = db
        /\ file.lines[k][2] = table
        /\ file.lines[k][3] = column

\* No listing on the way to table `table` of database db failed.
ListingsSucceeded(db, table) ==
    /\ ~Printed("databases_error")
    /\ ~PrintedFor("tables_error", db, "", "")
    /\ ~PrintedFor("columns_error", db, table, "")

\* C1: when the run that connected has ended, every column of every base
\* table whose listings (databases, tables of its database, its own columns)
\* did not fail has a row among the collected rows, and a line in the file
\* when the file was written: the failure of another table's column listing
\* removes only that table's rows.
C1_SiblingRowsKept ==
    (pc = "done" /\ Printed("connected")) =>
        \A db \in OnlineUserDatabases : \A t \in catalog.tables[db] :
            ListingsSucceeded(db, t[2]) =>
                \A i \in 1 .. Len(UColumns(t)) :
                    /\ HasRow(db, t[2], UColumns(t)[i].column_name)
                    /\ Printed("complete") => HasLine(db, t[2], UColumns(t)[i].column_name)

\* C1 witness: the column listing of Sales.Orders failed, and the report
\* still has the rows of its sibling Sales.Staff and of database Hr.
C1_Witness ==
    /\ pc = "done"
    /\ Printed("complete")
    /\ PrintedFor("columns_error", "Sales", "Orders", "")
    /\ ~HasRow("Sales", "Orders", "OrderId")
    /\ HasLine("Sales", "Staff", "Name")
    /\ HasLine("Hr", "Staff", "Name")

\* C2: no two rows of the report have the same (database, table, column).
C2_UniqueTriples ==
    \A i, j \in 1 .. Len(data_map_results) :
        (/\ data_map_results[i].database = data_map_results[j].database
         /\ data_map_results[i].table = data_map_results[j].table
         /\ data_map_results[i].column = data_map_results[j].column) => i = j

\* C3: when no database passes the online / non-system filter and nothing
\* fails, no row is collected and the file is written and holds exactly the
\* header row database, table, column, data_type, sample_values, is_nullable.
C3_HeaderOnlyFile ==
    (pc = "done" /\ faults = 0 /\ OnlineUserDatabases = {}) =>
        /\ data_map_results = <<>>
        /\ file.exists
        /\ file.lines = <<RowKeys>>

\* The write step was entered: the walk ended and the connection was closed.
WriteEntered == Printed("connected") /\ ~connected
WriteSucceeded == file = [exists |-> TRUE, lines |-> CsvLines(df)]

\* C4: once the run has ended, whether the write succeeded or failed at any
\* point, the output path holds no file, the complete previous file or the
\* complete new report, and a failed write was reported to the caller.
C4_NoPartialFile ==
    pc = "done" =>
        /\ \/ ~file.exists
           \/ file = old_file
           \/ WriteEntered /\ WriteSucceeded
        /\ (WriteEntered /\ ~WriteSucceeded) =>
              (Printed("create_data_map_error") /\ Empty(result))

ConnectFailedCase ==
    /\ queries = 0
    /\ file = old_file
    /\ ~Printed("complete")
    /\ pc = "done" =>
          /\ Empty(result)
          /\ Printed("mapping_failed")
          /\ ~Printed("data_map_summary")

\* C5 as stated: a failed connection means no catalog query, an untouched
\* output path, an empty result and main's failure message instead of a
\* summary; a successful connection means the run proceeds to the write and
\* prints the summary.
C5_ConnectOrSummary ==
    /\ (pc \notin {"main", "connect"} /\ ~Printed("connected")) => ConnectFailedCase
    /\ (pc = "done" /\ Printed("connected")) => (WriteEntered /\ Printed("complete"))

\* C5 amended: as C5, but after a successful connection the summary is
\* printed exactly when the write succeeded; a failed write ends the run
\* with the error printed, an empty result and main's failure message.
C5_ConnectOrWrite ==
    /\ (pc \notin {"main", "connect"} /\ ~Printed("connected")) => ConnectFailedCase
    /\ (pc = "done" /\ Printed("connected")) =>
          /\ WriteEntered
          /\ df = DataFrame(data_map_results)
          /\ Printed("complete") <=> WriteSucceeded
          /\ ~WriteSucceeded =>
                /\ Printed("create_data_map_error")
                /\ Empty(result)
                /\ Printed("mapping_failed")

\* C5 witness: the connection failed over an existing file; the run ended
\* with the file untouched and the failure message printed.
C5_Witness ==
    /\ pc = "done"
    /\ Printed("connect_error")
    /\ Printed("mapping_failed")
    /\ queries = 0
    /\ old_file = PreviousFile
    /\ file = PreviousFile

\* The joined string of up to DefaultSampleSize samples, written out.
JoinedSamples(values) ==
    CASE Len(values) = 1 -> ToString(values[1])
      [] Len(values) = 2 -> ToString(values[1]) \o ", " \o ToString(values[2])
      [] Len(values) = 3 -> ToString(values[1]) \o ", " \o ToString(values[2])
                                \o ", " \o ToString(values[3])

AllNull(data) == \A i \in 1 .. Len(data) : data[i] = None

\* C10: every step of the column loop appends exactly one row for its column
\* and stays in the loop; when the sample query failed (an error was printed)
\* or the column holds no non-null value, the row's sample_values is
\* "No data"; otherwise it is the samples, stringified and joined by ", ".
C10_NoDataRow ==
    [][(pc = "column_loop" /\ coli < Len(columns_info)) =>
        /\ pc' = "column_loop"
        /\ coli' = coli + 1
        /\ Len(data_map_results') = Len(data_map_results) + 1
        /\ SubSeq(data_map_results', 1, Len(data_map_results)) = data_map_results
        /\ LET row == data_map_results'[Len(data_map_results')]
               col == columns_info[coli + 1]
               failed == Len(stdout') > Len(stdout)
           IN  /\ row.database = databases[dbi]
               /\ row.table = tables[tabi]
               /\ row.column = col.column_name
               /\ failed => stdout'[Len(stdout')] =
                                Msg("sample_error", row.database, row.table, row.column, 0)
               /\ (failed \/ AllNull(UData(row.table, row.column))) =>
                     (sample_values' = <<>> /\ row.sample_values = "No data")
               /\ sample_values' # <<>> =>
                     row.sample_values = JoinedSamples(sample_values')
               /\ (~failed /\ ~AllNull(UData(row.table, row.column))) =>
                     sample_values' # <<>>
      ]_vars

\* C10 witness: sampling Hr.Staff.Profile failed, its row says "No data", and
\* the walk went on to rows with joined samples.
C10_Witness ==
    /\ pc = "done"
    /\ PrintedFor("sample_error", "Hr", "Staff", "Profile")
    /\ \E i, j \in 1 .. Len(data_map_results) :
          /\ i < j
          /\ data_map_results[i].column = "Profile"
          /\ data_map_results[i].sample_values = "No data"
          /\ data_map_results[j].column = "OrderId"
          /\ data_map_results[j].sample_values = "0, 1, 2"

\* The place of a name in the collation order.
Rank(name) == CHOOSE i \in 1 .. Len(NameOrder) : NameOrder[i] = name

\* Rows i < j are in walk order: by database name, then by table name.
InWalkOrder(r1, r2) ==
    \/ Rank(r1.database) < Rank(r2.database)
    \/ r1.database = r2.database /\ Rank(r1.table) <= Rank(r2.table)

\* The base tables of database db that are called `table`, one per schema.
TablesNamed(db, table) == {t \in catalog.tables[db] : t[2] = table}

\* Number of listed columns of ordinal position below pos.
ColumnsBelow(objs, pos) ==
    Cardinality({<<o, p>> \in objs \X (1 .. MaxCols) : p < pos /\ p <= Len(UColumns(o))})

\* listing holds every column of the tables objs, those of a lower ordinal
\* position before those of a higher one.
InOrdinalOrder(listing, objs) ==
    /\ Len(listing) = ColumnsBelow(objs, MaxCols + 1)
    /\ \A pos \in 1 .. MaxCols :
          LET from == ColumnsBelow(objs, pos)
              upto == ColumnsBelow(objs, pos + 1)
          IN  \A o \in objs : pos <= Len(UColumns(o)) =>
                Cardinality({k \in (from + 1) .. upto : listing[k] = UColumns(o)[pos]})
                    = Cardinality({q \in objs : /\ pos <= Len(UColumns(q))
                                                /\ UColumns(q)[pos] = UColumns(o)[pos]})

\* C11: the rows are in walk order at every moment (databases ascending by
\* name, tables ascending by name within a database, so the rows of one
\* (database, table) unit are contiguous); a written report holds the rows
\* in the order they were collected; rows are only ever appended; every
\* column listing is in ordinal-position order and the column loop appends
\* the rows in the order of the listing.
C11_WalkOrder ==
    /\ [](/\ \A i, j \in 1 .. Len(data_map_results) :
                i < j => InWalkOrder(data_map_results[i], data_map_results[j])
          /\ Printed("complete") =>
                /\ Len(file.lines) = Len(data_map_results) + 1
                /\ Len(result.rows) = Len(data_map_results)
                /\ \A k \in 1 .. Len(data_map_results) :
                      /\ result.rows[k] = data_map_results[k]
                      /\ file.lines[k + 1] =
                            <<data_map_results[k].database, data_map_results[k].table,
                              data_map_results[k].column, data_map_results[k].data_type,
                              data_map_results[k].sample_values,
                              data_map_results[k].is_nullable>>)
    /\ [][/\ Len(data_map_results') >= Len(data_map_results)
          /\ SubSeq(data_map_results', 1, Len(data_map_results)) = data_map_results
          /\ (pc = "table_loop" /\ pc' = "column_loop") =>
                \/ columns_info' = <<>>
                \/ InOrdinalOrder(columns_info', TablesNamed(databases[dbi], tables[tabi']))
          /\ (pc = "column_loop" /\ coli' = coli + 1) =>
                /\ columns_info' = columns_info
                /\ data_map_results'[Len(data_map_results')].database = databases[dbi]
                /\ data_map_results'[Len(data_map_results')].table = tables[tabi]
                /\ data_map_results'[Len(data_map_results')].column =
                      columns_info[coli'].column_name
      ]_vars

\* C11 witness: a written report with rows of Hr before rows of Sales, and in
\* Sales the columns of Orders, in ordinal order, before those of Staff.
C11_Witness ==
    /\ pc = "done"
    /\ Printed("complete")
    /\ \E i \in 2 .. (Len(file.lines) - 3) :
          /\ file.lines[i][1] = "Hr"
          /\ file.lines[i + 1][1] = "Sales"
          /\ file.lines[i + 1][2] = "Orders"
          /\ file.lines[i + 1][3] = "OrderId"
          /\ file.lines[i + 2][2] = "Orders"
          /\ file.lines[i + 2][3] = "Amount"
          /\ file.lines[i + 3][2] = "Staff"

CountPrinted(kind) == Cardinality({i \in 1 .. Len(stdout) : stdout[i].kind = kind})
PrintedNumber(kind) == stdout[CHOOSE i \in 1 .. Len(stdout) : stdout[i].kind = kind].n

\* C12: the summary of a completed run tells processed units from skipped
\* ones: a database whose table listing failed and a table whose column
\* listing failed are not counted as processed, and the summary reports the
\* skipped units when there are any.
C12_ProcessedVsSkipped ==
    (pc = "done" /\ Printed("complete")) =>
        /\ PrintedNumber("total_databases_processed") =
              CountPrinted("processing_database") - CountPrinted("tables_error")
        /\ PrintedNumber("total_tables_processed") =
              CountPrinted("processing_table") - CountPrinted("columns_error")
        /\ (CountPrinted("tables_error") + CountPrinted("columns_error") > 0) =>
              Printed("skipped")

(***************************************************************************)
(* run_pipeline                                                            *)
(***************************************************************************)
\* The loop of run_pipeline is straight-line code: a step that can be taken is taken.
LiveSpecPipeline == SpecPipeline /\ WF_vars(NextPipeline)

Logged(kind, obj) == \E i \in 1 .. Len(logged) : logged[i].kind = kind /\ logged[i].obj = obj
CountLogged(kind, obj) ==
    Cardinality({i \in 1 .. Len(logged) : logged[i].kind = kind /\ logged[i].obj = obj})

\* The objects of the "Extracting" records, in log order.
Attempts == SelectSeq(logged, LAMBDA m : m.kind = "extracting")
PlanPrefix(n) == [i \in 1 .. n |-> Log("extracting", EXTRACTION_PLAN[i].object, 0)]

\* extract_object returned a frame of at least one record for the object.
ExtractedSome(obj) == \E i \in 1 .. Len(logged) :
    logged[i].kind = "fetched" /\ logged[i].obj = obj /\ logged[i].n >= 1

Authenticated == Logged("connected", "")

\* Every plan entry before task_i has been attempted once, in plan order, and
\* its turn ended in exactly one of: saved, no records, failure logged.
AttemptedInPlanOrder ==
    /\ task_i \in 0 .. Len(EXTRACTION_PLAN)
    /\ Attempts = PlanPrefix(task_i)
    /\ \A i \in 1 .. task_i :
          LET obj == EXTRACTION_PLAN[i].object
          IN  CountLogged("saved", obj) + CountLogged("no_records", obj)
                  + CountLogged("failed", obj) = 1
    /\ (ppc = "complete") => (task_i = Len(EXTRACTION_PLAN))
    /\ Authenticated => (ppc \in {"loop", "complete"})

\* C13 as stated: after a completed run a file is saved for an object if and
\* only if its extraction succeeded with at least one record.
C13_FileIffExtracted ==
    (ppc = "complete") =>
        /\ AttemptedInPlanOrder
        /\ \A obj \in Objects : exports[obj].exists <=> ExtractedSome(obj)

\* C13, amended: once authentication has succeeded every entry of
\* EXTRACTION_PLAN is attempted exactly once in plan order and the run reaches
\* "Pipeline complete"; a failure of one turn is logged and the later entries
\* are still attempted; a file exists only for an object whose extraction
\* succeeded with at least one record, and it is the complete file of those
\* records if and only if save_dataframe did not raise as well.
C13_FileIffExtractedAndSaved ==
    /\ [](AttemptedInPlanOrder
          /\ \A obj \in Objects :
                /\ exports[obj].exists => ExtractedSome(obj)
                /\ (exports[obj].exists /\ exports[obj].complete)
                      <=> (ExtractedSome(obj) /\ ~Logged("failed", obj))
                /\ (exports[obj].exists /\ exports[obj].complete)
                      => Logged("saved", obj)
                         /\ exports[obj].rows =
                               IF EXTRACTION_PLAN[CHOOSE i \in 1 .. 3 :
                                      EXTRACTION_PLAN[i].object = obj].where = ""
                                  THEN org[obj].all ELSE org[obj].kept)
    /\ (Authenticated ~> (ppc = "complete" /\ Logged("pipeline_complete", "")))

\* C13 witness: a completed run in which the extraction of Account raised,
\* the file of Contact was saved, and Opportunity was extracted with records
\* but its save raised and left no file.
C13_Witness ==
    /\ ppc = "complete"
    /\ Logged("failed", "Account") /\ ~ExtractedSome("Account")
    /\ exports["Contact"].complete /\ Logged("saved", "Contact")
    /\ ExtractedSome("Opportunity") /\ Logged("failed", "Opportunity")
    /\ ~exports["Opportunity"].exists

(***************************************************************************)
(* extract_object                                                          *)
(***************************************************************************)
HasLimitClause(query) == \E i \in 1 .. Len(query) : query[i] = "LIMIT"

\* C14: a call of extract_object with a limit that is not None builds a query
\* that ends in a LIMIT clause of that value and returns at most limit rows;
\* the query has no LIMIT clause only when limit is None.
C14_LimitClause ==
    (epc = "done") =>
        /\ (ext_args.limit # None) =>
              /\ Len(soql) >= 2
              /\ soql[Len(soql) - 1] = "LIMIT"
              /\ soql[Len(soql)] = Str(ext_args.limit)
              /\ ext_rows <= The(ext_args.limit)
        /\ (ext_args.limit = None) => ~HasLimitClause(soql)
====
